---- MODULE Spec2Model ----
(***************************************************************************)
(* update_translations.py: the script reads one file, applies the ordered *)
(* table `replacements` to its text with re.sub, one rule after the other, *)
(* writes the text back and prints a summary line.                         *)
(*                                                                         *)
(* Texts, patterns and replacement templates are strings; Ch(s, i) is the  *)
(* i-th character.  The regular-expression dialect modelled is the part of *)
(* Python's `re` the table uses (literal characters, backslash escapes,    *)
(* the whitespace class, the star repeat) together with . + ? and          *)
(* capturing groups, which the claims about escaping, capture references   *)
(* and malformed patterns need.  Alternation,                              *)
(* character sets, counted and lazy repeats, repeated groups and (?...)    *)
(* extensions do not occur in any pattern of this module.                  *)
(***************************************************************************)
EXTENDS Naturals, Sequences, FiniteSets, TLC

VARIABLES
    file,          \* text stored at file_path
    content,       \* the script's variable `content`
    replacements,  \* the dict `replacements`, in insertion order
    pc,            \* position of the script
    idx,           \* number of rules the for loop has completed
    stdout,        \* numbers printed by the summary line of each finished run
    raised,        \* message of the re.error that ended the run, "" if none
    run,           \* number of the current run of the script
    orig,          \* history: the text read at the start of the current run
    before,        \* history: the text the last completed rule was applied to
    counts,        \* history: occurrences replaced by each completed rule
    versions       \* history: the first text of the file, then what each
                   \* run wrote

vars == <<file, content, replacements, pc, idx, stdout, raised, run, orig,
          before, counts, versions>>

-----------------------------------------------------------------------------
(* Characters *)

Ch(s, i) == SubSeq(s, i, i)

Whitespace == {" ", "\n", "\t"}

Digits == {"1", "2", "3", "4", "5", "6", "7", "8", "9"}

DigitVal(d) ==
    CASE d = "1" -> 1 [] d = "2" -> 2 [] d = "3" -> 3 [] d = "4" -> 4
      [] d = "5" -> 5 [] d = "6" -> 6 [] d = "7" -> 7 [] d = "8" -> 8
      [] d = "9" -> 9

AsciiLetters ==
    {"a", "b", "c", "d", "e", "f", "g", "h", "i", "j", "k", "l", "m", "n",
     "o", "p", "q", "r", "s", "t", "u", "v", "w", "x", "y", "z",
     "A", "B", "C", "D", "E", "F", "G", "H", "I", "J", "K", "L", "M", "N",
     "O", "P", "Q", "R", "S", "T", "U", "V", "W", "X", "Y", "Z"}

-----------------------------------------------------------------------------
(* re.compile: the pattern string parsed into a sequence of items.  An    *)
(* item is a run of ordinary characters, a character test with a repeat,  *)
(* or a group boundary.                                                   *)

\* What Parse and ParseTemplate answer for syntax of `re` that lies outside
\* the modelled dialect; InDialect states that no rule of the model gets it.
Unmodelled == "outside the modelled dialect"

\* Escapes with a meaning in a pattern or a template that is not modelled
\* (\d, \w, \b, ..., \g<name>, digits after a backslash in a pattern).
OtherEscapes ==
    {"A", "b", "B", "d", "D", "S", "w", "W", "Z", "a", "f", "r", "v", "x",
     "u", "U", "N", "g", "0", "1", "2", "3", "4", "5", "6", "7", "8", "9"}

\* Characters with a meaning of their own in a pattern.
Special == {"\\", ".", "(", ")", "*", "+", "?"}

\* The least element of a non-empty set of numbers.
Least(S) == CHOOSE x \in S : \A y \in S : x <= y

\* The first position >= k of s that holds a character of C; Len(s) + 1 if
\* there is none.
FirstOf(s, k, C) ==
    LET S == {j \in k..Len(s) : Ch(s, j) \in C} IN
    IF S = {} THEN Len(s) + 1 ELSE Least(S)

\* The last position of the run of ordinary characters that starts at k: a
\* character followed by a repeat is an item of its own.
RunEnd(p, k) ==
    LET e == FirstOf(p, k, Special) - 1 IN
    IF e > k /\ e < Len(p) /\ Ch(p, e + 1) \in {"*", "+", "?"}
    THEN e - 1 ELSE e

Item(kind, ch, q, g) == [kind |-> kind, ch |-> ch, q |-> q, g |-> g]

ParseError(msg) == [err |-> msg, items |-> <<>>, groups |-> 0]

\* The error found in the token that ends at position e.  The tokenizer has
\* by then read one token ahead, and a backslash that ends the pattern is
\* reported first.
ErrorAt(p, e, msg) ==
    IF e + 1 = Len(p) /\ Ch(p, e + 1) = "\\"
    THEN ParseError("bad escape (end of pattern)")
    ELSE ParseError(msg)

Quantifier(c) ==
    CASE c = "*" -> "star" [] c = "+" -> "plus" [] c = "?" -> "opt"

RECURSIVE ParseFrom(_, _, _, _, _)
ParseFrom(p, k, items, open, groups) ==
    IF k > Len(p)
    THEN IF open # <<>>
         THEN ParseError("missing ), unterminated subpattern")
         ELSE [err |-> "", items |-> items, groups |-> groups]
    ELSE LET c == Ch(p, k) IN
      CASE c = "\\" ->
             IF k = Len(p) THEN ParseError("bad escape (end of pattern)")
             ELSE LET d == Ch(p, k + 1) IN
                  IF d = "s"
                  THEN ParseFrom(p, k + 2,
                           Append(items, Item("space", "", "one", 0)),
                           open, groups)
                  ELSE IF d \in {"n", "t"}
                  THEN ParseFrom(p, k + 2,
                           Append(items, Item("lit",
                               IF d = "n" THEN "\n" ELSE "\t", "one", 0)),
                           open, groups)
                  ELSE IF d \in OtherEscapes
                  THEN ParseError(Unmodelled)
                  ELSE IF d \in AsciiLetters
                  THEN ErrorAt(p, k + 1, "bad escape")
                  ELSE ParseFrom(p, k + 2,
                           Append(items, Item("lit", d, "one", 0)),
                           open, groups)
        [] c = "." ->
             ParseFrom(p, k + 1, Append(items, Item("any", "", "one", 0)),
                       open, groups)
        [] c = "(" ->
             IF k < Len(p) /\ Ch(p, k + 1) = "?"
             THEN ParseError(Unmodelled)
             ELSE ParseFrom(p, k + 1,
                      Append(items, Item("open", "", "one", groups + 1)),
                      <<groups + 1>> \o open, groups + 1)
        [] c = ")" ->
             IF open = <<>> THEN ParseError("unbalanced parenthesis")
             ELSE ParseFrom(p, k + 1,
                      Append(items, Item("close", "", "one", Head(open))),
                      Tail(open), groups)
        [] c \in {"*", "+", "?"} ->
             IF items = <<>> \/ items[Len(items)].kind = "open"
             THEN ErrorAt(p, k, "nothing to repeat")
             ELSE IF items[Len(items)].kind = "close"
             THEN ParseError(Unmodelled)
             ELSE IF items[Len(items)].q # "one"
             THEN ErrorAt(p, k, IF c = "*" THEN "multiple repeat"
                                ELSE Unmodelled)
             ELSE ParseFrom(p, k + 1,
                      [items EXCEPT ![Len(items)].q = Quantifier(c)],
                      open, groups)
        [] OTHER ->
             ParseFrom(p, RunEnd(p, k) + 1,
                       Append(items,
                              Item("lit", SubSeq(p, k, RunEnd(p, k)), "one",
                                   0)),
                       open, groups)

\* A pattern with every backslash escape replaced by the character it
\* escapes: what a pattern whose special characters are all escaped looks
\* for.
RECURSIVE Unescape(_, _)
Unescape(p, k) ==
    LET b == FirstOf(p, k, {"\\"}) IN
    IF b >= Len(p) THEN SubSeq(p, k, Len(p))
    ELSE SubSeq(p, k, b - 1) \o Ch(p, b + 1) \o Unescape(p, b + 2)

\* The pattern compiled as if its escapes had not been written.
ParseUnescaped(p) == ParseFrom(Unescape(p, 1), 1, <<>>, <<>>, 0)

Parse(p) == ParseFrom(p, 1, <<>>, <<>>, 0)

-----------------------------------------------------------------------------
(* The matcher: greedy, backtracking, leftmost.  Positions are 1-based;   *)
(* a match from s to e covers the characters s .. e-1.                    *)

Accepts(it, c) ==
    CASE it.kind = "lit"   -> c = it.ch
      [] it.kind = "any"   -> c # "\n"
      [] it.kind = "space" -> c \in Whitespace

NoMatch == [ok |-> FALSE, start |-> 0, end |-> 0, caps |-> <<>>]

\* Number of consecutive characters from position p that `it` accepts.
RunLength(it, text, p) ==
    LET S == {j \in p..Len(text) : ~Accepts(it, Ch(text, j))} IN
    (IF S = {} THEN Len(text) + 1 ELSE Least(S)) - p

RECURSIVE MatchItems(_, _, _, _, _, _, _)
RECURSIVE Repeat(_, _, _, _, _, _, _, _, _)

\* Match items k.. at position p.  `from` is where the match began and
\* `advance` forbids a match that ends where it began (must_advance).
MatchItems(items, k, text, p, caps, from, advance) ==
    IF k > Len(items)
    THEN IF advance /\ p = from
         THEN NoMatch
         ELSE [ok |-> TRUE, start |-> from, end |-> p, caps |-> caps]
    ELSE LET it == items[k] IN
      CASE it.kind = "open" ->
             MatchItems(items, k + 1, text, p,
                        [caps EXCEPT ![it.g] = <<p, p>>], from, advance)
        [] it.kind = "close" ->
             MatchItems(items, k + 1, text, p,
                        [caps EXCEPT ![it.g] = <<caps[it.g][1], p>>],
                        from, advance)
        [] it.kind = "lit" /\ it.q = "one" ->
             IF /\ p + Len(it.ch) - 1 <= Len(text)
                /\ SubSeq(text, p, p + Len(it.ch) - 1) = it.ch
             THEN MatchItems(items, k + 1, text, p + Len(it.ch), caps,
                             from, advance)
             ELSE NoMatch
        [] it.q = "one" ->
             IF p <= Len(text) /\ Accepts(it, Ch(text, p))
             THEN MatchItems(items, k + 1, text, p + 1, caps, from, advance)
             ELSE NoMatch
        [] OTHER ->
             LET n == RunLength(it, text, p) IN
             Repeat(items, k, text, p, caps, from, advance,
                    IF it.q = "opt" /\ n > 1 THEN 1 ELSE n,
                    IF it.q = "plus" THEN 1 ELSE 0)

\* Item k taken n times, then n-1, ... down to `least`: the first count
\* after which the rest of the pattern matches wins.
Repeat(items, k, text, p, caps, from, advance, n, least) ==
    IF n < least THEN NoMatch
    ELSE LET r == MatchItems(items, k + 1, text, p + n, caps, from, advance)
         IN  IF r.ok THEN r
             ELSE IF n = 0 THEN NoMatch
             ELSE Repeat(items, k, text, p, caps, from, advance, n - 1, least)

NoCaps(groups) == [g \in 1..groups |-> <<0, 0>>]

\* The match at the first position of lo..hi that has one.  A match at
\* position `fresh` must not be empty.
RECURSIVE FirstMatch(_, _, _, _, _, _)
FirstMatch(items, groups, text, lo, hi, fresh) ==
    IF lo > hi THEN NoMatch
    ELSE IF lo = hi
    THEN MatchItems(items, 1, text, lo, NoCaps(groups), lo, lo = fresh)
    ELSE LET mid == (lo + hi) \div 2
             r   == FirstMatch(items, groups, text, lo, mid, fresh)
         IN  IF r.ok THEN r
             ELSE FirstMatch(items, groups, text, mid + 1, hi, fresh)

\* sre_search: the first position >= p with a match; must_advance only
\* constrains the attempt at p itself.
Search(items, groups, text, p, advance) ==
    FirstMatch(items, groups, text, p, Len(text) + 1,
               IF advance THEN p ELSE 0)

-----------------------------------------------------------------------------
(* The replacement template (parse_template): a sequence of text parts    *)
(* and group references.                                                  *)

TextPart(s) == [kind |-> "text", s |-> s, g |-> 0]

GroupPart(g) == [kind |-> "group", s |-> "", g |-> g]

TemplateError(msg) == [err |-> msg, parts |-> <<>>]

RECURSIVE TemplateFrom(_, _, _, _)
TemplateFrom(t, k, parts, groups) ==
    IF k > Len(t) THEN [err |-> "", parts |-> parts]
    ELSE LET c == Ch(t, k) IN
      IF c # "\\"
      THEN TemplateFrom(t, FirstOf(t, k, {"\\"}),
               Append(parts, TextPart(SubSeq(t, k, FirstOf(t, k, {"\\"}) - 1))),
               groups)
      ELSE IF k = Len(t) THEN TemplateError("bad escape (end of pattern)")
      ELSE LET d == Ch(t, k + 1) IN
        CASE d \in Digits ->
               IF DigitVal(d) > groups
               THEN TemplateError("invalid group reference")
               ELSE TemplateFrom(t, k + 2,
                        Append(parts, GroupPart(DigitVal(d))), groups)
          [] d = "n" ->
               TemplateFrom(t, k + 2, Append(parts, TextPart("\n")), groups)
          [] d = "t" ->
               TemplateFrom(t, k + 2, Append(parts, TextPart("\t")), groups)
          [] d = "\\" ->
               TemplateFrom(t, k + 2, Append(parts, TextPart("\\")), groups)
          [] d \in {"a", "b", "f", "r", "v", "g", "0"} ->
               TemplateError(Unmodelled)
          [] d \in AsciiLetters ->
               TemplateError("bad escape")
          [] OTHER ->
               TemplateFrom(t, k + 2, Append(parts, TextPart("\\" \o d)),
                            groups)

\* A template without a backslash is used as it stands.
ParseTemplate(t, groups) ==
    IF FirstOf(t, 1, {"\\"}) <= Len(t)
    THEN TemplateFrom(t, 1, <<>>, groups)
    ELSE [err |-> "", parts |-> IF t = "" THEN <<>> ELSE <<TextPart(t)>>]

RECURSIVE Expand(_, _, _, _)
Expand(parts, k, text, caps) ==
    IF k > Len(parts) THEN ""
    ELSE LET part == parts[k] IN
         (IF part.kind = "text" THEN part.s
          ELSE SubSeq(text, caps[part.g][1], caps[part.g][2] - 1))
         \o Expand(parts, k + 1, text, caps)

-----------------------------------------------------------------------------
(* re.sub / re.subn (pattern_subx): copy the text up to each match, put   *)
(* the expanded template in its place, go on after the match.             *)

\* Scan with the text after the last match left out of the result.
RECURSIVE ScanLosingTail(_, _, _, _, _, _, _, _, _)
ScanLosingTail(items, groups, parts, text, i, start, advance, acc, n) ==
    LET m == Search(items, groups, text, start, advance) IN
    IF ~m.ok
    THEN [err |-> "", out |-> acc, n |-> n]
    ELSE ScanLosingTail(items, groups, parts, text, m.end, m.end,
              m.end = m.start,
              acc \o SubSeq(text, i, m.start - 1)
                  \o Expand(parts, 1, text, m.caps),
              n + 1)

\* The template expanded once, at the first occurrence, and that text put
\* in the place of every occurrence.
RECURSIVE ScanPrecomputed(_, _, _, _, _, _, _, _, _)
ScanPrecomputed(items, groups, parts, text, i, start, advance, acc, n) ==
    LET m == Search(items, groups, text, start, advance) IN
    IF ~m.ok
    THEN [err |-> "", out |-> acc \o SubSeq(text, i, Len(text)), n |-> n]
    ELSE ScanPrecomputed(items, groups, parts, text, m.end, m.end,
              m.end = m.start,
              acc \o SubSeq(text, i, m.start - 1)
                  \o Expand(parts, 1, text,
                            Search(items, groups, text, 1, FALSE).caps),
              n + 1)

\* i: first character not yet copied; start: where the next search begins.
RECURSIVE Scan(_, _, _, _, _, _, _, _, _)
Scan(items, groups, parts, text, i, start, advance, acc, n) ==
    LET m == Search(items, groups, text, start, advance) IN
    IF ~m.ok
    THEN [err |-> "", out |-> acc \o SubSeq(text, i, Len(text)), n |-> n]
    ELSE Scan(items, groups, parts, text, m.end, m.end, m.end = m.start,
              acc \o SubSeq(text, i, m.start - 1)
                  \o Expand(parts, 1, text, m.caps),
              n + 1)

\* The template looked at only once the pattern has matched.
SubnLazyTemplate(pattern, repl, text) ==
    LET pp == Parse(pattern) IN
    IF pp.err # "" THEN [err |-> pp.err, out |-> text, n |-> 0]
    ELSE IF ~Search(pp.items, pp.groups, text, 1, FALSE).ok
    THEN [err |-> "", out |-> text, n |-> 0]
    ELSE LET tt == ParseTemplate(repl, pp.groups) IN
         IF tt.err # "" THEN [err |-> tt.err, out |-> text, n |-> 0]
         ELSE Scan(pp.items, pp.groups, tt.parts, text, 1, 1, FALSE, "", 0)

Subn(pattern, repl, text) ==
    LET pp == Parse(pattern) IN
    IF pp.err # "" THEN [err |-> pp.err, out |-> text, n |-> 0]
    ELSE LET tt == ParseTemplate(repl, pp.groups) IN
         IF tt.err # "" THEN [err |-> tt.err, out |-> text, n |-> 0]
         ELSE Scan(pp.items, pp.groups, tt.parts, text, 1, 1, FALSE, "", 0)

-----------------------------------------------------------------------------
(* The table `replacements` and the texts the script is run on.           *)

Rule(pattern, replacement) ==
    [pattern |-> pattern, replacement |-> replacement]

\* Entries of the table, as written in the source (raw strings: every
\* backslash below is a character of the pattern or of the template).
SizeSqftRule ==
    Rule("<FormLabel>Size \\(sq ft\\)</FormLabel>",
         "<FormLabel>{t(\\'propertyForm.sizeSqft\\')}</FormLabel>")

\* The entry written for the bare word, with a key that repeats it.
CapacityRuleForBareWord ==
    Rule("Capacity", "{t(\\'propertyForm.Capacity\\')}")

CapacityRule ==
    Rule("<FormLabel>Capacity</FormLabel>",
         "<FormLabel>{t(\\'propertyForm.capacity\\')}</FormLabel>")

UnitsConfiguredRule ==
    Rule("<p className=\"text-sm font-medium\">\\{units\\.length\\} \\{units\\.length === 1 \\? \\'unit\\' : \\'units\\'\\} configured</p>",
         "<p className=\"text-sm font-medium\">{t(\\'propertyForm.unitsConfigured\\', { count: units.length })}</p>")

AddUnitRule ==
    Rule("Add Unit\\s*</Button>",
         "{t(\\'propertyForm.addUnit\\')}\\n                      </Button>")

PhonePlaceholderRule ==
    Rule("placeholder=\"\\+1 \\(555\\) 123-4567\"",
         "placeholder={t(\\'propertyForm.phoneNumberPlaceholder\\')}")

\* The whole table, every entry in the order of the source.
Table ==
    <<
      Rule("<h3 className=\"text-lg font-semibold mb-2\">Property Details</h3>",
           "<h3 className=\"text-lg font-semibold mb-2\">{t(\\'propertyForm.propertyDetails\\')}</h3>"),
      Rule("<p className=\"text-sm text-muted-foreground mb-4\">Size, capacity, and room specifications</p>",
           "<p className=\"text-sm text-muted-foreground mb-4\">{t(\\'propertyForm.propertyDetailsDesc\\')}</p>"),
      SizeSqftRule,
      CapacityRule,
      Rule("<FormLabel>Max Capacity</FormLabel>",
           "<FormLabel>{t(\\'propertyForm.maxCapacity\\')}</FormLabel>"),
      Rule("<FormLabel>Bedrooms</FormLabel>",
           "<FormLabel>{t(\\'propertyForm.bedrooms\\')}</FormLabel>"),
      Rule("<FormLabel>Bathrooms</FormLabel>",
           "<FormLabel>{t(\\'propertyForm.bathrooms\\')}</FormLabel>"),
      Rule("<FormLabel>Half Baths</FormLabel>",
           "<FormLabel>{t(\\'propertyForm.halfBaths\\')}</FormLabel>"),
      Rule("<FormLabel>WCs</FormLabel>",
           "<FormLabel>{t(\\'propertyForm.wcs\\')}</FormLabel>"),
      Rule("<FormLabel>Kitchens</FormLabel>",
           "<FormLabel>{t(\\'propertyForm.kitchens\\')}</FormLabel>"),
      Rule("<FormLabel>Living Rooms</FormLabel>",
           "<FormLabel>{t(\\'propertyForm.livingRooms\\')}</FormLabel>"),
      Rule("<h4 className=\"text-md font-semibold mb-2\">Property Units</h4>",
           "<h4 className=\"text-md font-semibold mb-2\">{t(\\'propertyForm.propertyUnits\\')}</h4>"),
      Rule("<p className=\"text-sm text-muted-foreground mb-4\">Manage individual units within this property \\(optional\\)</p>",
           "<p className=\"text-sm text-muted-foreground mb-4\">{t(\\'propertyForm.propertyUnitsDesc\\')}</p>"),
      UnitsConfiguredRule,
      AddUnitRule,
      Rule("placeholder=\"Property name\"",
           "placeholder={t(\\'propertyForm.propertyNamePlaceholderUnit\\')}"),
      Rule("placeholder=\"License number\"",
           "placeholder={t(\\'propertyForm.licenseNumberPlaceholder\\')}"),
      Rule("placeholder=\"Folio\"",
           "placeholder={t(\\'propertyForm.folioPlaceholder\\')}"),
      Rule("<h3 className=\"text-lg font-semibold mb-2\">Communication Details</h3>",
           "<h3 className=\"text-lg font-semibold mb-2\">{t(\\'propertyForm.communicationDetails\\')}</h3>"),
      Rule("<p className=\"text-sm text-muted-foreground mb-4\">Contact information and internet access details for this property</p>",
           "<p className=\"text-sm text-muted-foreground mb-4\">{t(\\'propertyForm.communicationDetailsDesc\\')}</p>"),
      Rule("<span>Contact Information</span>",
           "<span>{t(\\'propertyForm.contactInformation\\')}</span>"),
      Rule("<label className=\"text-sm font-medium text-gray-700\">Phone Number</label>",
           "<label className=\"text-sm font-medium text-gray-700\">{t(\\'propertyForm.phoneNumber\\')}</label>"),
      PhonePlaceholderRule,
      Rule("<label className=\"text-sm font-medium text-gray-700\">WiFi Network Name</label>",
           "<label className=\"text-sm font-medium text-gray-700\">{t(\\'propertyForm.wifiNetworkName\\')}</label>"),
      Rule("placeholder=\"MyPropertyWiFi\"",
           "placeholder={t(\\'propertyForm.wifiNamePlaceholder\\')}"),
      Rule("<label className=\"text-sm font-medium text-gray-700\">WiFi Password</label>",
           "<label className=\"text-sm font-medium text-gray-700\">{t(\\'propertyForm.wifiPassword\\')}</label>"),
      Rule("placeholder=\"Enter WiFi password\"",
           "placeholder={t(\\'propertyForm.wifiPasswordPlaceholder\\')}"),
      Rule("<h3 className=\"text-lg font-semibold mb-2\">Access Information</h3>",
           "<h3 className=\"text-lg font-semibold mb-2\">{t(\\'propertyForm.accessInformation\\')}</h3>"),
      Rule("<p className=\"text-sm text-muted-foreground mb-4\">Security codes and entry information for property access</p>",
           "<p className=\"text-sm text-muted-foreground mb-4\">{t(\\'propertyForm.accessInformationDesc\\')}</p>"),
      Rule("<span>Security Access</span>",
           "<span>{t(\\'propertyForm.securityAccess\\')}</span>"),
      Rule("<label className=\"text-sm font-medium text-gray-700\">Gate Code</label>",
           "<label className=\"text-sm font-medium text-gray-700\">{t(\\'propertyForm.gateCode\\')}</label>"),
      Rule("placeholder=\"1234#\"",
           "placeholder={t(\\'propertyForm.gateCodePlaceholder\\')}"),
      Rule("<label className=\"text-sm font-medium text-gray-700\">Door Lock Password</label>",
           "<label className=\"text-sm font-medium text-gray-700\">{t(\\'propertyForm.doorLockPassword\\')}</label>"),
      Rule("placeholder=\"Enter lock code\"",
           "placeholder={t(\\'propertyForm.doorLockPasswordPlaceholder\\')}"),
      Rule("<label className=\"text-sm font-medium text-gray-700\">Alarm Passcode</label>",
           "<label className=\"text-sm font-medium text-gray-700\">{t(\\'propertyForm.alarmPasscode\\')}</label>"),
      Rule("placeholder=\"Security alarm code\"",
           "placeholder={t(\\'propertyForm.alarmPasscodePlaceholder\\')}"),
      Rule("<span>Additional Property Features</span>",
           "<span>{t(\\'propertyForm.additionalPropertyFeatures\\')}</span>"),
      Rule("<label className=\"text-sm font-medium text-gray-700\">Storage Number</label>",
           "<label className=\"text-sm font-medium text-gray-700\">{t(\\'propertyForm.storageNumber\\')}</label>"),
      Rule("placeholder=\"Storage unit #\"",
           "placeholder={t(\\'propertyForm.storageNumberPlaceholder\\')}"),
      Rule("<label className=\"text-sm font-medium text-gray-700\">Storage Code</label>",
           "<label className=\"text-sm font-medium text-gray-700\">{t(\\'propertyForm.storageCode\\')}</label>"),
      Rule("placeholder=\"Access code\"",
           "placeholder={t(\\'propertyForm.storageCodePlaceholder\\')}"),
      Rule("<label className=\"text-sm font-medium text-gray-700\">Garage Number</label>",
           "<label className=\"text-sm font-medium text-gray-700\">{t(\\'propertyForm.garageNumber\\')}</label>"),
      Rule("placeholder=\"Parking spot #\"",
           "placeholder={t(\\'propertyForm.garageNumberPlaceholder\\')}"),
      Rule("<label className=\"text-sm font-medium text-gray-700\">Front Desk</label>",
           "<label className=\"text-sm font-medium text-gray-700\">{t(\\'propertyForm.frontDesk\\')}</label>"),
      Rule("placeholder=\"Front desk info\"",
           "placeholder={t(\\'propertyForm.frontDeskPlaceholder\\')}"),
      Rule("<label className=\"text-sm font-medium text-gray-700\">Mailing Box</label>",
           "<label className=\"text-sm font-medium text-gray-700\">{t(\\'propertyForm.mailingBox\\')}</label>"),
      Rule("placeholder=\"Mailbox number\"",
           "placeholder={t(\\'propertyForm.mailingBoxPlaceholder\\')}"),
      Rule("<label className=\"text-sm font-medium text-gray-700\">Pool Access Code</label>",
           "<label className=\"text-sm font-medium text-gray-700\">{t(\\'propertyForm.poolAccessCode\\')}</label>"),
      Rule("placeholder=\"Pool code\"",
           "placeholder={t(\\'propertyForm.poolAccessCodePlaceholder\\')}"),
      Rule("<h4 className=\"text-lg font-semibold mb-2\">Amenities</h4>",
           "<h4 className=\"text-lg font-semibold mb-2\">{t(\\'propertyForm.amenities\\')}</h4>"),
      Rule("<p className=\"text-sm text-muted-foreground mb-4\">Select all amenities available at this property</p>",
           "<p className=\"text-sm text-muted-foreground mb-4\">{t(\\'propertyForm.amenitiesDesc\\')}</p>"),
      Rule("<h4 className=\"text-lg font-semibold mb-2\">Rules</h4>",
           "<h4 className=\"text-lg font-semibold mb-2\">{t(\\'propertyForm.rules\\')}</h4>"),
      Rule("<p className=\"text-sm text-muted-foreground mb-4\">Select all rules that apply to this property</p>",
           "<p className=\"text-sm text-muted-foreground mb-4\">{t(\\'propertyForm.rulesDesc\\')}</p>"),
      Rule("<h3 className=\"text-lg font-semibold mb-2\">Property Profile Image</h3>",
           "<h3 className=\"text-lg font-semibold mb-2\">{t(\\'propertyForm.propertyProfileImage\\')}</h3>"),
      Rule("<p className=\"text-sm text-muted-foreground mb-4\">Upload one profile image to represent this property</p>",
           "<p className=\"text-sm text-muted-foreground mb-4\">{t(\\'propertyForm.propertyProfileImageDesc\\')}</p>"),
      Rule("<label className=\"text-sm font-medium\">Upload Profile Image</label>",
           "<label className=\"text-sm font-medium\">{t(\\'propertyForm.uploadProfileImage\\')}</label>"),
      Rule("Remove\\s*</Button>",
           "{t(\\'propertyForm.remove\\')}\\n                          </Button>"),
      Rule("<label className=\"text-sm font-medium mb-1 block\">Image Title \\(Optional\\)</label>",
           "<label className=\"text-sm font-medium mb-1 block\">{t(\\'propertyForm.imageTitleOptional\\')}</label>"),
      Rule("placeholder=\"Enter image title or description\"",
           "placeholder={t(\\'propertyForm.imageTitlePlaceholder\\')}")
    >>

\* A text the pattern p looks for, from position k of p on: the characters
\* it stands for, with a line break and blanks where it allows whitespace.
RECURSIVE Sample(_, _)
Sample(p, k) ==
    LET b == FirstOf(p, k, {"\\"}) IN
    IF b >= Len(p) THEN SubSeq(p, k, Len(p))
    ELSE IF Ch(p, b + 1) = "s"
    THEN SubSeq(p, k, b - 1) \o "\n  " \o Sample(p, b + 3)
    ELSE SubSeq(p, k, b - 1) \o Ch(p, b + 1) \o Sample(p, b + 2)

\* Each entry of the table on its own, run on a text it looks for.
TableInputs ==
    {<<<<Table[k]>>, Sample(Table[k].pattern, 1)>> : k \in 1..Len(Table)}

\* The whole table run on a text that holds what some of its entries look
\* for.
WholeTableInputs ==
    {<<Table, Sample(Table[k].pattern, 1) \o "\n"
                  \o Sample(Table[Len(Table) + 1 - k].pattern, 1)>> :
        k \in {15}}

\* The entries that are run on the pieces of PropertyForm.tsx below, in the
\* order of the source.
Catalog ==
    <<SizeSqftRule, CapacityRule, UnitsConfiguredRule, AddUnitRule,
      PhonePlaceholderRule>>

CatalogRuleSets == {Catalog} \cup {<<Catalog[k]>> : k \in 1..Len(Catalog)}

\* Pieces of PropertyForm.tsx: what the modelled entries look for, and
\* pieces that differ from it in the places where an entry has an escape.
Fragments ==
    {"<FormLabel>Size (sq ft)</FormLabel>",
     "<FormLabel>Size sq ft</FormLabel>",
     "<FormLabel>Capacity</FormLabel>",
     "<p className=\"text-sm font-medium\">{units.length} {units.length === 1 ? 'unit' : 'units'} configured</p>",
     "<p className=\"text-sm font-medium\">{units_length} {units.length === 1 ? 'unit' : 'units'} configured</p>",
     "<p className=\"text-sm font-medium\">{units.length} {units.length === 1 'unit' : 'units'} configured</p>",
     "<Button>Add Unit\n</Button>\n",
     "<Button>Add Unit</Button>\n",
     "placeholder=\"+1 (555) 123-4567\"",
     "placeholder=\"\"1 555 123-4567\""}

CatalogTexts ==
    Fragments \cup {f \o g : f \in Fragments, g \in Fragments}

\* Rule sets and texts over a two-letter alphabet, up to the bounds.
MaxLen == 3

MaxRules == 2

MaxRuns == 2

Alphabet == {"a", "b"}

RECURSIVE Strings(_)
Strings(n) ==
    IF n = 0 THEN {""}
    ELSE LET S == Strings(n - 1) IN
         S \cup {s \o c : s \in S, c \in Alphabet}

Texts == Strings(MaxLen)

RulePool ==
    {Rule("a", "b"), Rule("b", "a"), Rule("ab", "b"), Rule("a*", "b"),
     Rule("(a*)b", "\\1\\1"), Rule("(a", "b"), Rule("ba", "a\\1")}

\* A dict holds each key once.
RuleSets ==
    {rs \in UNION {[1..n -> RulePool] : n \in 0..MaxRules} :
        \A j, k \in 1..Len(rs) : j # k => rs[j].pattern # rs[k].pattern}

Inputs ==
    (RuleSets \X Texts) \cup (CatalogRuleSets \X CatalogTexts)
        \cup TableInputs \cup WholeTableInputs

-----------------------------------------------------------------------------
(* The script *)

Init ==
    /\ \E in \in Inputs : replacements = in[1] /\ file = in[2]
    /\ content = ""
    /\ pc = "read"
    /\ idx = 0
    /\ stdout = <<>>
    /\ raised = ""
    /\ run = 1
    /\ orig = ""
    /\ before = ""
    /\ counts = <<>>
    /\ versions = <<file>>

\* with open(file_path, 'r') as f: content = f.read()
Read ==
    /\ pc = "read"
    /\ content' = file
    /\ orig' = file
    /\ pc' = "loop"
    /\ UNCHANGED <<file, replacements, idx, stdout, raised, run, before,
                   counts, versions>>

\* The k-th rule applied to the text that was read instead of the text the
\* rules before it produced.
LoopBodyOnSource(k, text) ==
    Subn(replacements[k].pattern, replacements[k].replacement, orig)

\* The table walked in a canonical order, shorter patterns first, instead
\* of the order it lists its items in.
LoopBodyShortestFirst(k, text) ==
    LET rank(j) == Cardinality({i \in 1..Len(replacements) :
                       \/ Len(replacements[i].pattern)
                              < Len(replacements[j].pattern)
                       \/ /\ Len(replacements[i].pattern)
                                 = Len(replacements[j].pattern)
                          /\ i < j}) + 1
        j == CHOOSE j \in 1..Len(replacements) : rank(j) = k
    IN  Subn(replacements[j].pattern, replacements[j].replacement, text)

\* re.sub(pattern, replacement, content) for the k-th item of the table.
LoopBody(k, text) ==
    Subn(replacements[k].pattern, replacements[k].replacement, text)

\* The loop going on with the next rule when re.sub raises.
ApplyRuleSkipping ==
    /\ pc = "loop"
    /\ idx < Len(replacements)
    /\ LET r == LoopBody(idx + 1, content) IN
       /\ content' = r.out
       /\ idx' = idx + 1
       /\ before' = content
       /\ counts' = Append(counts, r.n)
       /\ UNCHANGED <<pc, raised>>
    /\ UNCHANGED <<file, replacements, stdout, run, orig, versions>>

\* The text saved to the file after every rule.
ApplyRuleSaving ==
    /\ pc = "loop"
    /\ idx < Len(replacements)
    /\ LET r == LoopBody(idx + 1, content) IN
       IF r.err # ""
       THEN /\ pc' = "failed"
            /\ raised' = r.err
            /\ UNCHANGED <<content, idx, before, counts, file, versions>>
       ELSE /\ content' = r.out
            /\ idx' = idx + 1
            /\ before' = content
            /\ counts' = Append(counts, r.n)
            /\ file' = r.out
            /\ versions' = Append(versions, r.out)
            /\ UNCHANGED <<pc, raised>>
    /\ UNCHANGED <<replacements, stdout, run, orig>>

\* One iteration of the for loop; a re.error leaves the loop and the script.
ApplyRule ==
    /\ pc = "loop"
    /\ idx < Len(replacements)
    /\ LET r == LoopBody(idx + 1, content) IN
       IF r.err # ""
       THEN /\ pc' = "failed"
            /\ raised' = r.err
            /\ UNCHANGED <<content, idx, before, counts>>
       ELSE /\ content' = r.out
            /\ idx' = idx + 1
            /\ before' = content
            /\ counts' = Append(counts, r.n)
            /\ UNCHANGED <<pc, raised>>
    /\ UNCHANGED <<file, replacements, stdout, run, orig, versions>>

\* The file opened for appending instead of writing.
WriteBackAppending ==
    /\ pc = "loop"
    /\ idx = Len(replacements)
    /\ file' = file \o content
    /\ versions' = Append(versions, file \o content)
    /\ pc' = "print"
    /\ UNCHANGED <<content, replacements, idx, stdout, raised, run, orig,
                   before, counts>>

\* The write-back placed in a finally clause: it also runs when re.sub has
\* raised.
WriteBackInFinally ==
    /\ \/ pc = "loop" /\ idx = Len(replacements)
       \/ pc = "failed" /\ file # content
    /\ file' = content
    /\ versions' = Append(versions, content)
    /\ pc' = IF pc = "failed" THEN "failed" ELSE "print"
    /\ UNCHANGED <<content, replacements, idx, stdout, raised, run, orig,
                   before, counts>>

\* with open(file_path, 'w') as f: f.write(content)
WriteBack ==
    /\ pc = "loop"
    /\ idx = Len(replacements)
    /\ file' = content
    /\ versions' = Append(versions, content)
    /\ pc' = "print"
    /\ UNCHANGED <<content, replacements, idx, stdout, raised, run, orig,
                   before, counts>>

\* What a run tells its caller besides the file it writes: the numbers on
\* its standard output.
ApplicationReport == stdout

\* print(f"... Successfully updated {len(replacements)} translations ...")
PrintSummary ==
    /\ pc = "print"
    /\ stdout' = Append(stdout, Len(replacements))
    /\ pc' = "done"
    /\ UNCHANGED <<file, content, replacements, idx, raised, run, orig,
                   before, counts, versions>>

\* The script is started again on the file the last run left.
Rerun ==
    /\ pc \in {"done", "failed"}
    /\ run < MaxRuns
    /\ run' = run + 1
    /\ pc' = "read"
    /\ content' = ""
    /\ idx' = 0
    /\ stdout' = <<>>
    /\ raised' = ""
    /\ orig' = ""
    /\ before' = ""
    /\ counts' = <<>>
    /\ UNCHANGED <<file, replacements, versions>>

Next == Read \/ ApplyRule \/ WriteBack \/ PrintSummary \/ Rerun

Spec == Init /\ [][Next]_vars

\* Every pattern and template of the model lies in the modelled dialect.
InDialect ==
    \A k \in 1..Len(replacements) :
        /\ Parse(replacements[k].pattern).err # Unmodelled
        /\ Parse(replacements[k].pattern).err = "" =>
             ParseTemplate(replacements[k].replacement,
                           Parse(replacements[k].pattern).groups).err
                 # Unmodelled

-----------------------------------------------------------------------------
(* Two invocations of the script at the same time.  Each is a process of  *)
(* its own: content, the loop position and what it prints belong to the   *)
(* invocation, and in ParSpec the variables that hold them hold one value *)
(* per invocation.  file_path is fixed in the source, so both invocations *)
(* read and write the same file; the table is the same in both and is     *)
(* only read.  open(file_path, 'w') empties the file, and the text        *)
(* reaches it when the with block closes it.                              *)

Invocations == {1, 2}

ParInputs == RuleSets \X Texts

ParInit ==
    /\ \E in \in ParInputs : replacements = in[1] /\ file = in[2]
    /\ content = [p \in Invocations |-> ""]
    /\ pc = [p \in Invocations |-> "read"]
    /\ idx = [p \in Invocations |-> 0]
    /\ stdout = [p \in Invocations |-> <<>>]
    /\ raised = [p \in Invocations |-> ""]
    /\ run = 1
    /\ orig = [p \in Invocations |-> ""]
    /\ before = [p \in Invocations |-> ""]
    /\ counts = [p \in Invocations |-> <<>>]
    /\ versions = <<file>>

\* with open(file_path, 'r') as f: content = f.read()
ParRead(p) ==
    /\ pc[p] = "read"
    /\ content' = [content EXCEPT ![p] = file]
    /\ orig' = [orig EXCEPT ![p] = file]
    /\ pc' = [pc EXCEPT ![p] = "loop"]
    /\ UNCHANGED <<file, replacements, idx, stdout, raised, run, before,
                   counts, versions>>

\* content kept in one place for all invocations: what an iteration
\* assigns to it, every invocation sees.
ParApplyRuleShared(p) ==
    /\ pc[p] = "loop"
    /\ idx[p] < Len(replacements)
    /\ LET r == LoopBody(idx[p] + 1, content[p]) IN
       IF r.err # ""
       THEN /\ pc' = [pc EXCEPT ![p] = "failed"]
            /\ raised' = [raised EXCEPT ![p] = r.err]
            /\ UNCHANGED <<content, idx, before, counts>>
       ELSE /\ content' = [q \in Invocations |-> r.out]
            /\ idx' = [idx EXCEPT ![p] = idx[p] + 1]
            /\ before' = [before EXCEPT ![p] = content[p]]
            /\ counts' = [counts EXCEPT ![p] = Append(counts[p], r.n)]
            /\ UNCHANGED <<pc, raised>>
    /\ UNCHANGED <<file, replacements, stdout, run, orig, versions>>

\* One iteration of the for loop of invocation p.
ParApplyRule(p) ==
    /\ pc[p] = "loop"
    /\ idx[p] < Len(replacements)
    /\ LET r == LoopBody(idx[p] + 1, content[p]) IN
       IF r.err # ""
       THEN /\ pc' = [pc EXCEPT ![p] = "failed"]
            /\ raised' = [raised EXCEPT ![p] = r.err]
            /\ UNCHANGED <<content, idx, before, counts>>
       ELSE /\ content' = [content EXCEPT ![p] = r.out]
            /\ idx' = [idx EXCEPT ![p] = idx[p] + 1]
            /\ before' = [before EXCEPT ![p] = content[p]]
            /\ counts' = [counts EXCEPT ![p] = Append(counts[p], r.n)]
            /\ UNCHANGED <<pc, raised>>
    /\ UNCHANGED <<file, replacements, stdout, run, orig, versions>>

\* open(file_path, 'w')
ParOpenForWriting(p) ==
    /\ pc[p] = "loop"
    /\ idx[p] = Len(replacements)
    /\ file' = ""
    /\ versions' = Append(versions, "")
    /\ pc' = [pc EXCEPT ![p] = "write"]
    /\ UNCHANGED <<content, replacements, idx, stdout, raised, run, orig,
                   before, counts>>

\* f.write(content) and the end of the with block
ParWrite(p) ==
    /\ pc[p] = "write"
    /\ file' = content[p]
    /\ versions' = Append(versions, content[p])
    /\ pc' = [pc EXCEPT ![p] = "print"]
    /\ UNCHANGED <<content, replacements, idx, stdout, raised, run, orig,
                   before, counts>>

\* print(f"... Successfully updated {len(replacements)} translations ...")
ParPrintSummary(p) ==
    /\ pc[p] = "print"
    /\ stdout' = [stdout EXCEPT ![p] = Append(stdout[p], Len(replacements))]
    /\ pc' = [pc EXCEPT ![p] = "done"]
    /\ UNCHANGED <<file, content, replacements, idx, raised, run, orig,
                   before, counts, versions>>

ParNext ==
    \E p \in Invocations :
        \/ ParRead(p)
        \/ ParApplyRule(p)
        \/ ParOpenForWriting(p)
        \/ ParWrite(p)
        \/ ParPrintSummary(p)

ParSpec == ParInit /\ [][ParNext]_vars

-----------------------------------------------------------------------------
(* Definitions the properties are stated with *)

\* The table applied rule by rule: the first n rules, from left to right.
RECURSIVE FoldRules(_, _, _)
FoldRules(rules, n, text) ==
    IF n = 0 THEN text
    ELSE Subn(rules[n].pattern, rules[n].replacement,
              FoldRules(rules, n - 1, text)).out

\* The occurrences of a pattern in a text, as re.finditer lists them: each
\* is the match at the first position that has one, at or after the end
\* of the occurrence before it; an empty occurrence is followed by one
\* that is not empty there, or lies further on.
MatchAt(pp, text, q, advance) ==
    MatchItems(pp.items, 1, text, q, NoCaps(pp.groups), q, advance)

NextOccurrence(pp, text, start, advance) ==
    LET S == {q \in start..Len(text) + 1 :
                 MatchAt(pp, text, q, advance /\ q = start).ok}
    IN  IF S = {} THEN NoMatch
        ELSE MatchAt(pp, text, Least(S), advance /\ Least(S) = start)

RECURSIVE Occurrences(_, _, _, _)
Occurrences(pp, text, start, advance) ==
    LET m == NextOccurrence(pp, text, start, advance) IN
    IF ~m.ok THEN <<>>
    ELSE <<m>> \o Occurrences(pp, text, m.end, m.end = m.start)

\* What the template of `rule` becomes at occurrence m of `text`.
ReplacementAt(rule, text, m) ==
    Expand(ParseTemplate(rule.replacement,
                         Parse(rule.pattern).groups).parts,
           1, text, m.caps)

\* Length of the result up to the start of occurrence j (up to the end of
\* the result for j = Len(ms) + 1) when the occurrences ms of `text` are
\* replaced.
RECURSIVE Shifted(_, _, _, _)
Shifted(rule, text, ms, j) ==
    IF j = 1 THEN (IF ms = <<>> THEN Len(text) ELSE ms[1].start - 1)
    ELSE Shifted(rule, text, ms, j - 1)
         + Len(ReplacementAt(rule, text, ms[j - 1]))
         + ((IF j > Len(ms) THEN Len(text) + 1 ELSE ms[j].start)
            - ms[j - 1].end)

\* `out` is `text` with the occurrences ms replaced: the characters before
\* the first occurrence, between two occurrences and after the last one
\* stand in `out` unchanged and in order, and the replacement of each
\* occurrence stands between them.
Framed(rule, text, ms, out) ==
    /\ Len(out) = Shifted(rule, text, ms, Len(ms) + 1)
    /\ \A j \in 1..Len(ms) :
         SubSeq(out, Shifted(rule, text, ms, j) + 1,
                Shifted(rule, text, ms, j)
                    + Len(ReplacementAt(rule, text, ms[j])))
             = ReplacementAt(rule, text, ms[j])
    /\ \A j \in 0..Len(ms) :
         LET from == IF j = 0 THEN 1 ELSE ms[j].end
             to   == IF j = Len(ms) THEN Len(text) ELSE ms[j + 1].start - 1
             at   == Shifted(rule, text, ms, j + 1) - (to + 1 - from)
         IN  \A q \in from..to : Ch(out, at + 1 + q - from) = Ch(text, q)

-----------------------------------------------------------------------------
(* Properties *)

\* C1: the rules are applied one at a time in their listed order, each to
\* the text the rules before it produced: after k rules the text is the
\* left-to-right fold of single-rule application over the first k rules,
\* started from the text that was read.
C1_FoldInOrder ==
    pc \in {"loop", "failed", "print", "done"} =>
        content = FoldRules(replacements, idx, orig)

\* C1 witness: two rules have run, both replaced something, and the second
\* gave another text than it gives on the text that was read.
C1_Witness ==
    /\ pc = "done"
    /\ idx = 2
    /\ counts[1] > 0
    /\ counts[2] > 0
    /\ content # Subn(replacements[2].pattern, replacements[2].replacement,
                      orig).out

\* C2: a rule keeps every character outside the occurrences of its pattern
\* unchanged and in order: its result is the unmatched segments, in order,
\* with one replacement where each occurrence was.
C2_FrameKept ==
    (pc \in {"loop", "print", "done"} /\ idx > 0) =>
        Framed(replacements[idx], before,
               Occurrences(Parse(replacements[idx].pattern), before, 1,
                           FALSE),
               content)

\* C2 witness: a rule replaced two occurrences in a text that has
\* characters before, between and after them.
C2_Witness ==
    /\ pc = "loop"
    /\ idx > 0
    /\ counts[idx] = 2
    /\ LET ms == Occurrences(Parse(replacements[idx].pattern), before, 1,
                             FALSE)
       IN  /\ ms[1].start > 1
           /\ ms[1].end < ms[2].start
           /\ ms[2].end <= Len(before)

\* The text of the Capacity scenario and the output the scenario expects.
CapacitySource == "<FormLabel>Capacity</FormLabel>"

CapacityExpected == "<FormLabel>{t('propertyForm.capacity')}</FormLabel>"

\* C3: the rule that looks for <FormLabel>Capacity</FormLabel>, applied to
\* a text equal to that string, yields exactly
\* <FormLabel>{t('propertyForm.capacity')}</FormLabel>, and the run reports
\* count 1 for it.
C3_CapacityScenario ==
    (replacements = <<CapacityRule>> /\ orig = CapacitySource) =>
        /\ pc \in {"print", "done"} =>
             content = CapacityExpected /\ counts = <<1>>
        /\ pc = "done" => ApplicationReport = <<1>>

\* The part of C4 about the text: a completed rule replaced as many
\* occurrences as its pattern has in the text it was applied to, scanning
\* from left to right, each by the template expanded at that occurrence.
C4_OccurrencesReplaced ==
    (pc \in {"loop", "print", "done"} /\ idx > 0) =>
        LET ms == Occurrences(Parse(replacements[idx].pattern), before, 1,
                              FALSE)
        IN  /\ counts[idx] = Len(ms)
            /\ \A j \in 1..Len(ms) - 1 : ms[j].end <= ms[j + 1].start
            /\ Framed(replacements[idx], before, ms, content)

\* A text that holds Add Unit, a line break and </Button> twice.
AddUnitTwice == "<Button>Add Unit\n</Button>\n<Button>Add Unit\n</Button>\n"

\* The part of C4 about the scenario's text: both occurrences are replaced
\* by the same text.
C4_AddUnitScenario ==
    (replacements = <<AddUnitRule>> /\ orig = AddUnitTwice
        /\ pc \in {"print", "done"}) =>
        LET ms == Occurrences(Parse(AddUnitRule.pattern), orig, 1, FALSE)
            r  == ReplacementAt(AddUnitRule, orig, ms[1])
        IN  /\ Len(ms) = 2
            /\ r = ReplacementAt(AddUnitRule, orig, ms[2])
            /\ content = "<Button>" \o r \o "\n<Button>" \o r \o "\n"

\* C4: a rule replaces every non-overlapping occurrence of its pattern in
\* the current text, from left to right, and the count the run reports for
\* the rule is the number of occurrences replaced; on a text that holds
\* Add Unit, a line break and </Button> twice the whitespace-tolerant rule
\* replaces both by the same text and the run reports count 2.
C4_EveryOccurrenceCounted ==
    /\ C4_OccurrencesReplaced
    /\ C4_AddUnitScenario
    /\ pc = "done" =>
         \A k \in 1..Len(replacements) :
             /\ k <= Len(ApplicationReport)
             /\ ApplicationReport[k] = counts[k]

\* Every special character of the pattern is escaped, and no escape is one
\* with a meaning of its own.
RECURSIVE EscapedLiteral(_, _)
EscapedLiteral(p, k) ==
    LET b == FirstOf(p, k, Special) IN
    IF b > Len(p) THEN TRUE
    ELSE /\ Ch(p, b) = "\\"
         /\ b < Len(p)
         /\ Ch(p, b + 1) \notin AsciiLetters \cup OtherEscapes
         /\ EscapedLiteral(p, b + 2)

\* C5: a literal matcher, written with its special characters escaped,
\* matches at exactly the positions where the characters it stands for
\* occur verbatim in the text, and the match covers exactly them.
C5_LiteralMatchers ==
    pc = "loop" =>
        \A k \in 1..Len(replacements) :
            EscapedLiteral(replacements[k].pattern, 1) =>
                LET pp  == Parse(replacements[k].pattern)
                    lit == Unescape(replacements[k].pattern, 1)
                IN  /\ pp.err = ""
                    /\ \A q \in 1..Len(content) + 1 :
                         LET m == MatchAt(pp, content, q, FALSE) IN
                         /\ m.ok <=> /\ q + Len(lit) - 1 <= Len(content)
                                     /\ SubSeq(content, q, q + Len(lit) - 1)
                                            = lit
                         /\ m.ok => m.end = q + Len(lit)

\* C5 witness: a pattern with an escaped parenthesis is about to scan a
\* text that holds what it stands for.
C5_Witness ==
    /\ pc = "loop"
    /\ idx < Len(replacements)
    /\ replacements[idx + 1] = SizeSqftRule
    /\ Search(Parse(SizeSqftRule.pattern).items, 0, content, 1, FALSE).ok

\* The pattern of `rule` has an occurrence in `text`.
OccursIn(rule, text) ==
    LET pp == Parse(rule.pattern) IN
    pp.err = "" /\ Search(pp.items, pp.groups, text, 1, FALSE).ok

\* What the template of `rule` writes when no group has captured anything.
OwnOutput(rule) ==
    LET pp == Parse(rule.pattern) IN
    Expand(ParseTemplate(rule.replacement, pp.groups).parts, 1, "",
           [g \in 1..pp.groups |-> <<1, 1>>])

\* No template of the rule set is matched by the pattern of its own rule.
NeverRematchOwn(rules) ==
    \A k \in 1..Len(rules) :
        /\ Parse(rules[k].pattern).err = ""
        /\ ParseTemplate(rules[k].replacement,
                         Parse(rules[k].pattern).groups).err = ""
        /\ ~OccursIn(rules[k], OwnOutput(rules[k]))

\* C6 as claimed: for a rule set whose templates never re-match their own
\* patterns, the second application, made on the output of the first,
\* yields that same text, and no rule of the second run replaces anything.
C6_IdempotentIfNoSelfRematch ==
    (run = 2 /\ pc = "done" /\ NeverRematchOwn(replacements)) =>
        /\ versions[3] = versions[2]
        /\ \A k \in 1..Len(replacements) : counts[k] = 0

\* C6 as amended: for a rule set none of whose patterns has an occurrence
\* in the output of the first application, the second application yields
\* that same text, and no rule of the second run replaces anything.
C6_IdempotentIfNoOccurrenceLeft ==
    (run = 2 /\ pc = "done"
        /\ \A k \in 1..Len(replacements) :
               ~OccursIn(replacements[k], versions[2])) =>
        /\ versions[3] = versions[2]
        /\ file = versions[2]
        /\ \A k \in 1..Len(replacements) : counts[k] = 0

\* C6 witness: the first run changed the text, its output holds no
\* occurrence of any pattern, and the second run has finished.
C6_Witness ==
    /\ run = 2
    /\ pc = "done"
    /\ Len(replacements) = 2
    /\ versions[2] # versions[1]
    /\ \A k \in 1..Len(replacements) :
           ~OccursIn(replacements[k], versions[2])

\* C7: the run's report has one entry per rule, in rule order, holding the
\* number of occurrences the rule replaced; it is empty at the start of
\* the run and grows by one entry with each executed rule.
C7_ReportPerRule ==
    pc \in {"read", "loop", "failed", "print", "done"} =>
        /\ Len(ApplicationReport) = idx
        /\ \A k \in 1..idx : ApplicationReport[k] = counts[k]

\* C8: a rule without a match is no error: it leaves the text unchanged,
\* the run goes on with the rules after it, and the run's report shows
\* the rule as one that replaced nothing: the number of translations the
\* summary reports as updated counts only the rules that replaced
\* something.
C8_ZeroMatchVisible ==
    /\ (pc \in {"loop", "print", "done"} /\ idx > 0 /\ counts[idx] = 0) =>
           content = before /\ raised = ""
    /\ pc = "done" =>
           /\ idx = Len(replacements)
           /\ ApplicationReport
                  = <<Cardinality({k \in 1..idx : counts[k] > 0})>>

\* The pattern of the rule does not compile.
MalformedPattern(rule) == Parse(rule.pattern).err # ""

\* The pattern compiles and the template refers to a group it lacks.
UnresolvedReference(rule) ==
    /\ Parse(rule.pattern).err = ""
    /\ ParseTemplate(rule.replacement, Parse(rule.pattern).groups).err
           = "invalid group reference"

\* re.sub accepts the pattern and the template of the rule.
Sound(rule) ==
    /\ Parse(rule.pattern).err = ""
    /\ ParseTemplate(rule.replacement, Parse(rule.pattern).groups).err = ""

\* No run has written the file or printed anything.
NoOutput ==
    /\ pc \notin {"print", "done"}
    /\ versions = <<file>>
    /\ stdout = <<>>

\* C9: when the template of a rule refers to a capture group its pattern
\* does not define, the run fails with that error before it produces any
\* output, whether or not the pattern has an occurrence in the text: the
\* rule never completes, the file is not written and nothing is printed.
C9_UnresolvedReferenceFails ==
    \A k \in 1..Len(replacements) :
        UnresolvedReference(replacements[k]) =>
            /\ idx < k
            /\ NoOutput
            /\ (\A j \in 1..k - 1 : Sound(replacements[j])) =>
                 /\ (pc = "loop" /\ idx = k - 1) =>
                        LoopBody(k, content).err = "invalid group reference"
                 /\ pc = "failed" =>
                        idx = k - 1 /\ raised = "invalid group reference"

\* C9 witness: the run has failed at a rule with such a template whose
\* pattern has no occurrence in the text.
C9_Witness ==
    /\ pc = "failed"
    /\ raised = "invalid group reference"
    /\ UnresolvedReference(replacements[idx + 1])
    /\ ~OccursIn(replacements[idx + 1], content)

\* C10: when a pattern does not compile, the run fails at that rule with
\* the compile error and stops: the rule is not skipped, no later rule is
\* applied, and the text transformed so far is neither written nor
\* reported.
C10_MalformedPatternAborts ==
    \A k \in 1..Len(replacements) :
        MalformedPattern(replacements[k]) =>
            /\ idx < k
            /\ NoOutput
            /\ (\A j \in 1..k - 1 : Sound(replacements[j])) =>
                 /\ (pc = "loop" /\ idx = k - 1) =>
                        LoopBody(k, content).err
                            = Parse(replacements[k].pattern).err
                 /\ pc = "failed" =>
                        /\ idx = k - 1
                        /\ raised = Parse(replacements[k].pattern).err

\* C10 witness: the run has failed at a pattern that does not compile,
\* after an earlier rule had changed the text; the file still holds what
\* was read.
C10_Witness ==
    /\ pc = "failed"
    /\ idx = 1
    /\ MalformedPattern(replacements[2])
    /\ content # orig
    /\ file = orig

\* s occurs in t as a contiguous part of it.
Substring(s, t) ==
    \E q \in 1..Len(t) - Len(s) + 1 : SubSeq(t, q, q + Len(s) - 1) = s

\* The rules of `rules` applied in the opposite order.
Reversed(rules) == [k \in 1..Len(rules) |-> rules[Len(rules) + 1 - k]]

\* The run applied rule A and then rule B, the pattern of A is a
\* superstring of the pattern of B, and both patterns occur in the text
\* that was read.
SuperstringThenSubstring ==
    /\ pc = "done"
    /\ Len(replacements) = 2
    /\ replacements[1].pattern # replacements[2].pattern
    /\ Substring(replacements[2].pattern, replacements[1].pattern)
    /\ OccursIn(replacements[1], orig)
    /\ OccursIn(replacements[2], orig)

\* C11 as claimed: for two rules A and B where the pattern of A is a
\* superstring of the pattern of B, and a text in which both match,
\* applying [A, B] yields a different text than applying [B, A].
C11_OrdersAlwaysDiffer ==
    SuperstringThenSubstring =>
        content # FoldRules(Reversed(replacements), 2, orig)

\* C11 as amended: for two rules A and B where the pattern of A is a
\* superstring of the pattern of B, and a text in which both match,
\* applying [A, B] yields what B makes of the result of A, in the listed
\* order, whether or not the opposite order yields the same text.
C11_ListedOrderFollowed ==
    SuperstringThenSubstring =>
        LET A == replacements[1]
            B == replacements[2]
        IN  /\ before = Subn(A.pattern, A.replacement, orig).out
            /\ content = Subn(B.pattern, B.replacement, before).out
            /\ file = content

\* C11 witness: such a run has ended with a text that the opposite order
\* does not yield.
C11_Witness ==
    /\ SuperstringThenSubstring
    /\ content # FoldRules(Reversed(replacements), 2, orig)

\* The run applied two literal rules to a text in which the first has one
\* occurrence, every occurrence of the second lies inside it, and the
\* first rule left nothing there for the second to find.
ShadowingScenario ==
    /\ pc = "done"
    /\ Len(replacements) = 2
    /\ EscapedLiteral(replacements[1].pattern, 1)
    /\ EscapedLiteral(replacements[2].pattern, 1)
    /\ LET first  == Occurrences(Parse(replacements[1].pattern), orig, 1,
                                 FALSE)
           second == Occurrences(Parse(replacements[2].pattern), orig, 1,
                                 FALSE)
       IN  /\ Len(first) = 1
           /\ Len(second) > 0
           /\ \A j \in 1..Len(second) :
                  /\ first[1].start <= second[j].start
                  /\ second[j].end <= first[1].end
    /\ ~OccursIn(replacements[2], before)

\* The part of C12 about the run itself: the first rule replaces its one
\* occurrence, the second replaces nothing, and nothing is raised.
C12_ShadowedRuleSilent ==
    ShadowingScenario => counts = <<1, 0>> /\ raised = "" /\ idx = 2

\* C12: for two literal rules whose targets overlap, where the match of
\* the first rule consumes the region the second rule targets, the run
\* reports count 1 for rule 1 and count 0 for rule 2, and raises no
\* warning or error about the shadowing.
C12_ShadowingReported ==
    ShadowingScenario =>
        /\ raised = ""
        /\ Len(ApplicationReport) = 2
        /\ ApplicationReport[1] = 1
        /\ ApplicationReport[2] = 0

\* The groups a template refers to; its backslashes all start a reference.
GroupRefs(t) ==
    {DigitVal(Ch(t, b + 1)) :
        b \in {q \in 1..Len(t) - 1 : Ch(t, q) = "\\" /\ Ch(t, q + 1) \in Digits}}

OnlyGroupRefs(t) ==
    /\ GroupRefs(t) # {}
    /\ \A q \in 1..Len(t) :
           Ch(t, q) = "\\" => q < Len(t) /\ Ch(t, q + 1) \in Digits

\* The text group g captured at occurrence m of `text`.
Captured(text, m, g) == SubSeq(text, m.caps[g][1], m.caps[g][2] - 1)

\* The template t from position k on, written out with every reference
\* \g replaced by the text group g captured at occurrence m.
RECURSIVE Filled(_, _, _, _)
Filled(t, k, text, m) ==
    LET b == FirstOf(t, k, {"\\"}) IN
    IF b >= Len(t) THEN SubSeq(t, k, Len(t))
    ELSE SubSeq(t, k, b - 1)
         \o Captured(text, m, DigitVal(Ch(t, b + 1)))
         \o Filled(t, b + 2, text, m)

\* Where the replacement of occurrence j begins in the result, less one:
\* the characters outside the occurrences before it, and their filled
\* templates.
RECURSIVE FilledBefore(_, _, _, _)
FilledBefore(t, text, ms, j) ==
    IF j = 1 THEN ms[1].start - 1
    ELSE FilledBefore(t, text, ms, j - 1)
         + Len(Filled(t, 1, text, ms[j - 1]))
         + (ms[j].start - ms[j - 1].end)

C14_EmptyRuleSetKeepsText ==
    (replacements = <<>> /\ pc \in {"loop", "print", "done"}) =>
        /\ content = orig
        /\ file = orig
        /\ raised = ""
        /\ counts = <<>>

RECURSIVE RunAlone(_, _, _)
RunAlone(rules, k, text) ==
    IF k > Len(rules)
    THEN [content |-> text, raised |-> "", stdout |-> <<Len(rules)>>]
    ELSE LET r == Subn(rules[k].pattern, rules[k].replacement, text) IN
         IF r.err # ""
         THEN [content |-> text, raised |-> r.err, stdout |-> <<>>]
         ELSE RunAlone(rules, k + 1, r.out)

C16_RuleStepFrame ==
    [][/\ replacements' = replacements
       /\ (pc = "loop" /\ idx < Len(replacements)) =>
              /\ file' = file
              /\ versions' = versions
              /\ stdout' = stdout
              /\ content' = LoopBody(idx + 1, content).out]_vars

\* C16 witness: two rules have been applied and have changed the text,
\* and the file holds what was read.
C16_Witness ==
    /\ pc = "loop"
    /\ idx = 2
    /\ Len(replacements) = 2
    /\ before # orig
    /\ content # before
    /\ file = orig
    /\ versions = <<orig>>

\* The entries of the table.
TableRules == {Table[k] : k \in 1..Len(Table)}

\* C17: the table of the source meets the idempotence obligation: the
\* pattern of each of its rules has no match inside the text that the
\* rule's own replacement writes into the output, so that a rule run on
\* a text made of what it wrote replaces nothing.
C17_TableNeverRematchesOwn ==
    \A k \in 1..Len(replacements) :
        replacements[k] \in TableRules =>
            /\ Sound(replacements[k])
            /\ ~OccursIn(replacements[k], OwnOutput(replacements[k]))
            /\ (Len(replacements) = 1 /\ pc = "done" /\ counts[1] > 0) =>
                   ~OccursIn(replacements[1], content)
            /\ (Len(replacements) = 1 /\ pc = "done" /\ run = 2) =>
                   counts = <<0>> /\ content = orig

\* C17 witness: a rule of the table has replaced an occurrence, the file
\* holds what its replacement wrote, and a second run on that file has
\* ended.
C17_Witness ==
    /\ run = 2
    /\ pc = "done"
    /\ Len(replacements) = 1
    /\ replacements[1] \in TableRules
    /\ versions[2] # versions[1]
    /\ versions[2] = OwnOutput(replacements[1])

\* C18: the file is written at most once in a run, and only after every
\* rule of the table has been applied without error: a step that changes
\* the file is taken with all rules done and nothing raised, it is the
\* first of its run to do so, and the summary line is printed only after
\* it; in a run where a rule application fails the file holds what was
\* read at the start of the run and the summary line is not printed.
C18_WrittenOnceAfterAllRules ==
    [][/\ (file' # file \/ versions' # versions) =>
              /\ pc = "loop"
              /\ idx = Len(replacements)
              /\ raised = ""
              /\ file' = content
              /\ versions' = Append(versions, content)
              /\ pc' = "print"
       /\ pc' \in {"read", "loop", "failed"} =>
              /\ file' = versions'[Len(versions')]
              /\ run' = run + 1 \/ versions' = versions
              /\ stdout' = <<>>
       /\ pc' \in {"loop", "failed"} => file' = orig'
       /\ Len(versions') <=
              (IF pc' \in {"read", "loop", "failed"} THEN run' ELSE run' + 1)
       /\ stdout' # stdout =>
              \/ stdout' = <<>> /\ run' = run + 1
              \/ pc = "print" /\ file = content /\ raised = ""]_vars

\* C18 witness: a run has failed at its second rule, on a template that
\* re.sub rejects, after the first rule had changed the text; the file
\* holds what was read and nothing has been printed.
C18_Witness ==
    /\ pc = "failed"
    /\ idx = 1
    /\ raised = "invalid group reference"
    /\ content # orig
    /\ file = orig
    /\ stdout = <<>>

====
